---- MODULE Spec2Model ----
(***************************************************************************)
(* The admission gate of vox-note-WA: class SafetyManager                  *)
(* (src/src/core/safety-manager.js) together with the callers that drive   *)
(* it.  One step of the model is one run-to-completion piece of            *)
(* JavaScript: a call of a public method up to its first suspension, the   *)
(* continuation after `await operation()`, the `.then` callback that       *)
(* re-enters processWithTimeout after a queued wait, or a setTimeout       *)
(* callback.  Promise jobs (Reenter) run in the order they were queued    *)
(* and before any timer callback.  The public methods may be called by    *)
(* any caller, also from a promise reaction, so Submit, Complete and      *)
(* InitiateShutdown may come between a waiter's wake-up and its re-entry. *)
(***************************************************************************)
EXTENDS Integers, Sequences, FiniteSets, TLC

\* ------------------------------------------------------------------ bounds
\* Number of requests ever submitted to the gate.
NumReq == 4

Req == 1..NumReq

\* ------------------------------------------------------- JavaScript values
\* A value is a tagged tuple: a number carries its integer.
Undefined == <<"undefined">>
NaN == <<"NaN">>
Null == <<"null">>
Num(n) == <<"num", n>>

\* Strings are sequences of one-character strings.  The alphabet of the
\* model is the decimal digits, the signs, the blank and the letter "a".
DigitChars == {"0", "1", "2", "3", "4", "5", "6", "7", "8", "9"}

DigitVal(c) ==
  CASE c = "0" -> 0 [] c = "1" -> 1 [] c = "2" -> 2 [] c = "3" -> 3
    [] c = "4" -> 4 [] c = "5" -> 5 [] c = "6" -> 6 [] c = "7" -> 7
    [] c = "8" -> 8 [] c = "9" -> 9

RECURSIVE SkipBlanks(_)
SkipBlanks(s) ==
  IF s # <<>> /\ Head(s) = " " THEN SkipBlanks(Tail(s)) ELSE s

RECURSIVE LeadingDigits(_, _)
LeadingDigits(s, acc) ==
  IF s # <<>> /\ Head(s) \in DigitChars
    THEN LeadingDigits(Tail(s), 10 * acc + DigitVal(Head(s)))
    ELSE acc

\* parseInt(x) with no radix: blanks skipped, an optional sign, then the
\* longest run of decimal digits; NaN when there is no digit there.
ParseInt(s) ==
  IF s = Undefined THEN NaN
  ELSE LET t == SkipBlanks(s)
           signed == t # <<>> /\ Head(t) \in {"-", "+"}
           u == IF signed THEN Tail(t) ELSE t
       IN  IF u = <<>> \/ Head(u) \notin DigitChars THEN NaN
           ELSE IF signed /\ Head(t) = "-" THEN Num(0 - LeadingDigits(u, 0))
           ELSE Num(LeadingDigits(u, 0))

\* a || b for a number-or-null a and a number b: NaN, 0 and null are falsy.
OrElse(a, b) == IF a = NaN \/ a = Null \/ a = Num(0) THEN b ELSE a[2]

DefaultMaxConcurrent == 5
DefaultMaxRequestTime == 25000

\* The settings the gate is constructed under in Spec.
ConcurrencySettings == {Undefined, <<"1">>, <<"2">>}
RequestTimeSettings == {Undefined}
\* The timeoutMs arguments callers pass: both call sites of the repository
\* (whatsapp-bot.js lines 34 and 531) pass none, so timeoutMs = null.
TimeoutArgs == {Null}

\* --------------------------------------------------------------- the state
VARIABLES
  activeRequests,   \* this.activeRequests
  queue,            \* this.queue: sequence of {resolve, reject} entries
  isShuttingDown,   \* this.isShuttingDown
  maxConcurrent,    \* this.maxConcurrent
  maxRequestTime,   \* this.maxRequestTime
  phase,            \* per request: where its processWithTimeout call stands
  arg,              \* per request: the timeoutMs its call was given
  timer,            \* per request: the delay its pending timer was armed with
  outcome,          \* per request: what its caller's promise settled to
  jobs,             \* pending re-entry jobs (line 18), in the order queued
  incs,             \* history: activeRequests++ executed for the request
  decs,             \* history: activeRequests-- executed for the request
  wakes,            \* history: times the request's entry was shifted and resolved
  rejects,          \* history: times the request's entry was rejected by shutdown
  enqs,             \* history: queue.push executed for the request
  stats,            \* the object the getStats call of the last step returned
  graceTimers,      \* host: the delays of the exit timers armed so far
  exited,           \* host: process.exit(0) was called
  acked,            \* per request: its webhook response was sent
  catcher           \* per request: a .catch handler is attached to its promise

gate == <<activeRequests, queue, isShuttingDown, maxConcurrent, maxRequestTime>>
calls == <<phase, arg, timer, outcome, jobs>>
hist == <<incs, decs, wakes, rejects, enqs>>
host == <<graceTimers, exited, acked, catcher>>
vars == <<gate, calls, hist, stats, host>>

NoTimer == <<"none">>
\* The last step was no getStats call: every other step returns none.
NoStats == [returned |-> FALSE]
Phases == {"fresh", "queued", "woken", "running", "abandoned", "finished", "closed"}
Outcomes == {"none", "value", "error", "Timeout", "GateClosed"}

\* The identity of a promise's resolve/reject pair.
WaitFns(r) == [promise |-> "wait", of |-> r]
ExecFns(r) == [promise |-> "exec", of |-> r]
\* The object pushed at line 17.
Entry(r) == [resolve |-> WaitFns(r), reject |-> WaitFns(r)]

\* Mutant: the outcome is handed over by a plain callback, which every
\* branch calls.
Settle_Overwrite(oc, r, v) == [oc EXCEPT ![r] = v]

\* A promise settles once: later resolve/reject calls are ignored.
Settle(oc, r, v) == IF oc[r] = "none" THEN [oc EXCEPT ![r] = v] ELSE oc

Bump(f, r) == [f EXCEPT ![r] = @ + 1]

TypeOK ==
  /\ activeRequests \in Int
  /\ isShuttingDown \in BOOLEAN
  /\ phase \in [Req -> Phases]
  /\ outcome \in [Req -> Outcomes]
  /\ \A i \in 1..Len(queue) : queue[i].resolve.of \in Req
  /\ \A r \in Req : phase[r] = "queued" <=> \E i \in 1..Len(queue) : queue[i] = Entry(r)
  /\ \A r \in Req : phase[r] = "woken" <=> \E i \in 1..Len(jobs) : jobs[i] = r
  /\ \A r \in Req : timer[r] # NoTimer => phase[r] = "running"

\* constructor
Init ==
  /\ activeRequests = 0
  /\ queue = <<>>
  /\ isShuttingDown = FALSE
  /\ \E e \in ConcurrencySettings :
       maxConcurrent = OrElse(ParseInt(e), DefaultMaxConcurrent)
  /\ \E e \in RequestTimeSettings :
       maxRequestTime = OrElse(ParseInt(e), DefaultMaxRequestTime)
  /\ phase = [r \in Req |-> "fresh"]
  /\ arg = [r \in Req |-> Null]
  /\ timer = [r \in Req |-> NoTimer]
  /\ outcome = [r \in Req |-> "none"]
  /\ jobs = <<>>
  /\ incs = [r \in Req |-> 0]
  /\ decs = [r \in Req |-> 0]
  /\ wakes = [r \in Req |-> 0]
  /\ rejects = [r \in Req |-> 0]
  /\ enqs = [r \in Req |-> 0]
  /\ stats = NoStats
  /\ graceTimers = <<>>
  /\ exited = FALSE
  /\ acked = [r \in Req |-> FALSE]
  /\ catcher = [r \in Req |-> FALSE]

\* ------------------------------------------------------ processWithTimeout
\* Lines 11-13: throw new Error('System is shutting down').
Refuse(r) ==
  /\ phase' = [phase EXCEPT ![r] = "closed"]
  /\ outcome' = Settle(outcome, r, "GateClosed")
  /\ UNCHANGED <<activeRequests, queue, timer, incs, enqs>>

\* Mutant: the timer is armed when the request is queued.
Enqueue_ArmsTimer(r) ==
  /\ queue' = Append(queue, Entry(r))
  /\ phase' = [phase EXCEPT ![r] = "queued"]
  /\ enqs' = Bump(enqs, r)
  /\ timer' = [timer EXCEPT ![r] = Num(maxRequestTime)]
  /\ UNCHANGED <<activeRequests, outcome, incs>>

\* Lines 16-18: this.queue.push({ resolve, reject }) and wait.
Enqueue(r) ==
  /\ queue' = Append(queue, Entry(r))
  /\ phase' = [phase EXCEPT ![r] = "queued"]
  /\ enqs' = Bump(enqs, r)
  /\ UNCHANGED <<activeRequests, timer, outcome, incs>>

\* Mutant: the request is admitted and its operation started, but no timer
\* is armed.
Admit_NoTimer(r, t) ==
  /\ activeRequests' = activeRequests + 1
  /\ phase' = [phase EXCEPT ![r] = "running"]
  /\ incs' = Bump(incs, r)
  /\ UNCHANGED <<queue, timer, outcome, enqs>>

\* Lines 21-37: this.activeRequests++, the timer armed with actualTimeout,
\* operation() called.
Admit(r, t) ==
  /\ activeRequests' = activeRequests + 1
  /\ timer' = [timer EXCEPT ![r] = Num(OrElse(t, maxRequestTime))]
  /\ phase' = [phase EXCEPT ![r] = "running"]
  /\ incs' = Bump(incs, r)
  /\ UNCHANGED <<queue, outcome, enqs>>

\* Mutant: the shutdown test of lines 11-13 is missing.
Enter_NoShutdownCheck(r, t) ==
  IF activeRequests >= maxConcurrent THEN Enqueue(r) ELSE Admit(r, t)

\* Mutant: the shutdown test comes after the capacity test.
Enter_ShutdownCheckAfterCapacity(r, t) ==
  IF activeRequests >= maxConcurrent THEN Enqueue(r)
  ELSE IF isShuttingDown THEN Refuse(r)
  ELSE Admit(r, t)

\* Mutant: the capacity test is > for >=.
Enter_OffByOne(r, t) ==
  IF isShuttingDown THEN Refuse(r)
  ELSE IF activeRequests > maxConcurrent THEN Enqueue(r)
  ELSE Admit(r, t)

\* The body of processWithTimeout from its entry to its first suspension,
\* for request r called with timeoutMs = t.
Enter(r, t) ==
  IF isShuttingDown THEN Refuse(r)
  ELSE IF activeRequests >= maxConcurrent THEN Enqueue(r)
  ELSE Admit(r, t)

\* A caller calls processWithTimeout(operation, name, t).  Requests are
\* numbered in the order of their submission.
Submit(r, t) ==
  /\ phase[r] = "fresh"
  /\ \A s \in Req : s < r => phase[s] # "fresh"
  /\ arg' = [arg EXCEPT ![r] = t]
  /\ Enter(r, t)
  /\ UNCHANGED <<isShuttingDown, jobs, maxConcurrent, maxRequestTime,
                 decs, wakes, rejects>>
  /\ stats' = NoStats
  /\ UNCHANGED host

\* Mutant: a woken waiter goes on to lines 15-21 without the test of
\* lines 11-13.
Reenter_SkipsShutdownCheck(r) ==
  /\ jobs # <<>>
  /\ r = Head(jobs)
  /\ jobs' = Tail(jobs)
  /\ IF activeRequests >= maxConcurrent THEN Enqueue(r) ELSE Admit(r, arg[r])
  /\ UNCHANGED <<isShuttingDown, maxConcurrent, maxRequestTime, arg,
                 decs, wakes, rejects>>
  /\ stats' = NoStats
  /\ UNCHANGED host

\* The callback of line 18, run once the wait promise is resolved:
\* () => this.processWithTimeout(operation, operationName, timeoutMs).
\* Promise jobs run in the order they were queued.
Reenter(r) ==
  /\ jobs # <<>>
  /\ r = Head(jobs)
  /\ jobs' = Tail(jobs)
  /\ Enter(r, arg[r])
  /\ UNCHANGED <<isShuttingDown, maxConcurrent, maxRequestTime, arg,
                 decs, wakes, rejects>>
  /\ stats' = NoStats
  /\ UNCHANGED host

\* A promise-reaction job is pending: no timer callback runs before it.
MicrotaskPending == jobs # <<>>

\* queue.findIndex(req => req.resolve === fn): 0 stands for -1.
FindIndex(q, fn) ==
  IF \E i \in 1..Len(q) : q[i].resolve = fn
    THEN CHOOSE i \in 1..Len(q) :
           /\ q[i].resolve = fn
           /\ \A j \in 1..(i - 1) : q[j].resolve # fn
    ELSE 0

\* queue.splice(i, 1)
Splice(q, i) == SubSeq(q, 1, i - 1) \o SubSeq(q, i + 1, Len(q))

\* The setTimeout callback of request r (lines 25-34).
TimerFire(r) ==
  /\ timer[r] # NoTimer
  /\ ~MicrotaskPending
  /\ timer' = [timer EXCEPT ![r] = NoTimer]
  /\ outcome' = Settle(outcome, r, "Timeout")
  /\ activeRequests' = activeRequests - 1
  /\ decs' = Bump(decs, r)
  /\ LET index == FindIndex(queue, ExecFns(r))
     IN  queue' = IF index > 0 THEN Splice(queue, index) ELSE queue
  /\ phase' = [phase EXCEPT ![r] = "abandoned"]
  /\ UNCHANGED <<isShuttingDown, jobs, maxConcurrent, maxRequestTime, arg,
                 incs, wakes, rejects, enqs>>
  /\ stats' = NoStats
  /\ UNCHANGED host

\* Mutant: the head of the queue is resolved but not shifted.
Complete_PeekNotShift(r, ok) ==
  /\ phase[r] \in {"running", "abandoned"}
  /\ timer' = [timer EXCEPT ![r] = NoTimer]
  /\ outcome' = Settle(outcome, r, IF ok THEN "value" ELSE "error")
  /\ activeRequests' = activeRequests - 1
  /\ decs' = Bump(decs, r)
  /\ IF Len(queue) > 0
       THEN LET nextRequest == Head(queue)
            IN  /\ queue' = queue
                /\ phase' = [phase EXCEPT ![r] = "finished",
                                          ![nextRequest.resolve.of] = "woken"]
                /\ jobs' = Append(jobs, nextRequest.resolve.of)
                /\ wakes' = Bump(wakes, nextRequest.resolve.of)
       ELSE /\ phase' = [phase EXCEPT ![r] = "finished"]
            /\ UNCHANGED <<queue, jobs, wakes>>
  /\ UNCHANGED <<isShuttingDown, maxConcurrent, maxRequestTime, arg,
                 incs, rejects, enqs>>
  /\ stats' = NoStats
  /\ UNCHANGED host

\* Mutant: the decrement and the promotion stand in the try block, so a
\* failing operation skips them.
Complete_FailureKeepsSlot(r, ok) ==
  /\ phase[r] \in {"running", "abandoned"}
  /\ timer' = [timer EXCEPT ![r] = NoTimer]
  /\ outcome' = Settle(outcome, r, IF ok THEN "value" ELSE "error")
  /\ activeRequests' = IF ok THEN activeRequests - 1 ELSE activeRequests
  /\ decs' = IF ok THEN Bump(decs, r) ELSE decs
  /\ IF ok /\ Len(queue) > 0
       THEN LET nextRequest == Head(queue)
            IN  /\ queue' = Tail(queue)
                /\ phase' = [phase EXCEPT ![r] = "finished",
                                          ![nextRequest.resolve.of] = "woken"]
                /\ jobs' = Append(jobs, nextRequest.resolve.of)
                /\ wakes' = Bump(wakes, nextRequest.resolve.of)
       ELSE /\ phase' = [phase EXCEPT ![r] = "finished"]
            /\ UNCHANGED <<queue, jobs, wakes>>
  /\ UNCHANGED <<isShuttingDown, maxConcurrent, maxRequestTime, arg,
                 incs, rejects, enqs>>
  /\ stats' = NoStats
  /\ UNCHANGED host

\* Mutant: clearTimeout(timeoutId) is missing.
Complete_NoClearTimeout(r, ok) ==
  /\ phase[r] \in {"running", "abandoned"}
  /\ timer' = timer
  /\ outcome' = Settle(outcome, r, IF ok THEN "value" ELSE "error")
  /\ activeRequests' = activeRequests - 1
  /\ decs' = Bump(decs, r)
  /\ IF Len(queue) > 0
       THEN LET nextRequest == Head(queue)
            IN  /\ queue' = Tail(queue)
                /\ phase' = [phase EXCEPT ![r] = "finished",
                                          ![nextRequest.resolve.of] = "woken"]
                /\ jobs' = Append(jobs, nextRequest.resolve.of)
                /\ wakes' = Bump(wakes, nextRequest.resolve.of)
       ELSE /\ phase' = [phase EXCEPT ![r] = "finished"]
            /\ UNCHANGED <<queue, jobs, wakes>>
  /\ UNCHANGED <<isShuttingDown, maxConcurrent, maxRequestTime, arg,
                 incs, rejects, enqs>>
  /\ stats' = NoStats
  /\ UNCHANGED host

\* Mutant: `while` for `if`, every waiter is shifted and resolved.
Complete_PromotesAll(r, ok) ==
  /\ phase[r] \in {"running", "abandoned"}
  /\ timer' = [timer EXCEPT ![r] = NoTimer]
  /\ outcome' = Settle(outcome, r, IF ok THEN "value" ELSE "error")
  /\ activeRequests' = activeRequests - 1
  /\ decs' = Bump(decs, r)
  /\ LET woken == {queue[i].resolve.of : i \in 1..Len(queue)}
     IN  /\ queue' = <<>>
         /\ phase' = [x \in Req |-> IF x = r THEN "finished"
                                     ELSE IF x \in woken THEN "woken"
                                     ELSE phase[x]]
         /\ jobs' = jobs \o [i \in 1..Len(queue) |-> queue[i].resolve.of]
         /\ wakes' = [x \in Req |-> IF x \in woken THEN wakes[x] + 1
                                     ELSE wakes[x]]
  /\ UNCHANGED <<isShuttingDown, maxConcurrent, maxRequestTime, arg,
                 incs, rejects, enqs>>
  /\ stats' = NoStats
  /\ UNCHANGED host

\* The continuation after `await operation()` (lines 37-50): the operation
\* of request r fulfilled (ok) or rejected (~ok).  The operation is not
\* cancelled by the timer, so this also runs after TimerFire(r).
Complete(r, ok) ==
  /\ phase[r] \in {"running", "abandoned"}
  /\ timer' = [timer EXCEPT ![r] = NoTimer]
  /\ outcome' = Settle(outcome, r, IF ok THEN "value" ELSE "error")
  /\ activeRequests' = activeRequests - 1
  /\ decs' = Bump(decs, r)
  /\ IF Len(queue) > 0
       THEN LET nextRequest == Head(queue)
            IN  /\ queue' = Tail(queue)
                /\ phase' = [phase EXCEPT ![r] = "finished",
                                          ![nextRequest.resolve.of] = "woken"]
                /\ jobs' = Append(jobs, nextRequest.resolve.of)
                /\ wakes' = Bump(wakes, nextRequest.resolve.of)
       ELSE /\ phase' = [phase EXCEPT ![r] = "finished"]
            /\ UNCHANGED <<queue, jobs, wakes>>
  /\ UNCHANGED <<isShuttingDown, maxConcurrent, maxRequestTime, arg,
                 incs, rejects, enqs>>
  /\ stats' = NoStats
  /\ UNCHANGED host

\* -------------------------------------------------------- initiateShutdown
\* One round of the loop: const { reject } = this.queue.shift(); reject(...)
RejectHead(s) ==
  LET r == Head(s.queue).reject.of
  IN  [queue   |-> Tail(s.queue),
       phase   |-> [s.phase EXCEPT ![r] = "closed"],
       outcome |-> Settle(s.outcome, r, "GateClosed"),
       rejects |-> Bump(s.rejects, r)]

\* Mutant: `if` for `while`, only the head of the queue is rejected.
DrainQueue_HeadOnly(s) == IF Len(s.queue) > 0 THEN RejectHead(s) ELSE s

\* The loop of lines 57-60 over the state s = [queue, phase, outcome, rejects].
RECURSIVE DrainQueue(_)
DrainQueue(s) ==
  IF Len(s.queue) > 0 THEN DrainQueue(RejectHead(s)) ELSE s

\* What the loop of initiateShutdown makes of the current state.
Drained ==
  DrainQueue([queue |-> queue, phase |-> phase,
              outcome |-> outcome, rejects |-> rejects])

\* Mutant: shutdown also aborts the admitted requests and clears the counter.
InitiateShutdown_AbortsInFlight ==
  /\ isShuttingDown' = TRUE
  /\ queue' = Drained.queue
  /\ rejects' = Drained.rejects
  /\ phase' = [r \in Req |-> IF phase[r] \in {"running", "abandoned"}
                               THEN "closed" ELSE Drained.phase[r]]
  /\ outcome' = [r \in Req |-> IF phase[r] = "running"
                                 THEN "GateClosed" ELSE Drained.outcome[r]]
  /\ timer' = [r \in Req |-> NoTimer]
  /\ activeRequests' = 0
  /\ UNCHANGED <<maxConcurrent, maxRequestTime, arg,
                 jobs, incs, decs, wakes, enqs>>
  /\ stats' = NoStats
  /\ UNCHANGED host

\* Mutant: the flag is set but the loop of lines 57-60 is missing.
InitiateShutdown_FlagOnly ==
  /\ isShuttingDown' = TRUE
  /\ UNCHANGED <<activeRequests, queue, maxConcurrent, maxRequestTime,
                 calls, hist>>
  /\ stats' = NoStats
  /\ UNCHANGED host

InitiateShutdown ==
  /\ isShuttingDown' = TRUE
  /\ queue' = Drained.queue
  /\ phase' = Drained.phase
  /\ outcome' = Drained.outcome
  /\ rejects' = Drained.rejects
  /\ UNCHANGED <<activeRequests, maxConcurrent, maxRequestTime, arg, timer,
                 jobs, incs, decs, wakes, enqs>>
  /\ stats' = NoStats
  /\ UNCHANGED host

\* ------------------------------------------------------- the specification
\* Mutant: the waiting requests are counted as active.
GetStats_CountsWaitersAsActive ==
  /\ stats' = [returned       |-> TRUE,
               activeRequests |-> activeRequests + Len(queue),
               queueSize      |-> Len(queue),
               isShuttingDown |-> isShuttingDown,
               maxConcurrent  |-> maxConcurrent]
  /\ UNCHANGED <<gate, calls, hist, host>>

\* getStats (lines 65-72), called by any caller at any time.
GetStats ==
  /\ stats' = [returned       |-> TRUE,
               activeRequests |-> activeRequests,
               queueSize      |-> Len(queue),
               isShuttingDown |-> isShuttingDown,
               maxConcurrent  |-> maxConcurrent]
  /\ UNCHANGED <<gate, calls, hist, host>>

Next ==
  \/ \E r \in Req, t \in TimeoutArgs : Submit(r, t)
  \/ \E r \in Req : Reenter(r)
  \/ \E r \in Req : TimerFire(r)
  \/ \E r \in Req, ok \in BOOLEAN : Complete(r, ok)
  \/ InitiateShutdown
  \/ GetStats

Spec == Init /\ [][Next]_vars

\* The event loop runs every pending promise job and every timer that is
\* due; whether and when an operation settles is up to the operation.
Fairness ==
  /\ \A r \in Req : WF_vars(Reenter(r))
  /\ \A r \in Req : WF_vars(TimerFire(r))

SpecFair == Spec /\ Fairness

\* ------------------------------------------------- the gate's configuration
\* What MAX_CONCURRENT_REQUESTS and MAX_REQUEST_TIME may hold when the
\* process starts: not set, empty, not a number, zero, negative, positive,
\* with blanks, a sign, a leading zero or trailing letters.
EnvSettings ==
  {Undefined, <<>>, <<"a">>, <<"-", "a">>, <<"0">>, <<"-", "0">>,
   <<"-", "1">>, <<"-", "2", "5">>, <<"1">>, <<"2">>, <<" ", "3">>,
   <<"+", "4">>, <<"6">>, <<"7", "a">>, <<"0", "8">>, <<"1", "0">>}

\* The state after `new SafetyManager()` in a process started with the
\* settings c and t, before any request.
InitEnv ==
  /\ activeRequests = 0
  /\ queue = <<>>
  /\ isShuttingDown = FALSE
  /\ \E c \in EnvSettings :
       maxConcurrent = OrElse(ParseInt(c), DefaultMaxConcurrent)
  /\ \E t \in EnvSettings :
       maxRequestTime = OrElse(ParseInt(t), DefaultMaxRequestTime)
  /\ phase = [r \in Req |-> "fresh"]
  /\ arg = [r \in Req |-> Null]
  /\ timer = [r \in Req |-> NoTimer]
  /\ outcome = [r \in Req |-> "none"]
  /\ jobs = <<>>
  /\ incs = [r \in Req |-> 0]
  /\ decs = [r \in Req |-> 0]
  /\ wakes = [r \in Req |-> 0]
  /\ rejects = [r \in Req |-> 0]
  /\ enqs = [r \in Req |-> 0]
  /\ stats = NoStats
  /\ graceTimers = <<>>
  /\ exited = FALSE
  /\ acked = [r \in Req |-> FALSE]
  /\ catcher = [r \in Req |-> FALSE]

\* The constructor (lines 2-8) run with the settings c and t.
Construct(c, t) ==
  /\ activeRequests' = 0
  /\ queue' = <<>>
  /\ isShuttingDown' = FALSE
  /\ maxConcurrent' = OrElse(ParseInt(c), DefaultMaxConcurrent)
  /\ maxRequestTime' = OrElse(ParseInt(t), DefaultMaxRequestTime)
  /\ UNCHANGED <<calls, hist, stats, host>>

NextEnv == \E c \in EnvSettings, t \in EnvSettings : Construct(c, t)

SpecEnv == InitEnv /\ [][NextEnv]_vars

\* ------------------------------------------------ callers that pass timeoutMs
\* The third argument of processWithTimeout: left out, 0, or 50 ms.
SuppliedTimeouts == {Null, Num(0), Num(50)}

NextArgs ==
  \/ \E r \in Req, t \in SuppliedTimeouts : Submit(r, t)
  \/ \E r \in Req : Reenter(r)
  \/ \E r \in Req : TimerFire(r)
  \/ \E r \in Req, ok \in BOOLEAN : Complete(r, ok)
  \/ InitiateShutdown
  \/ GetStats

SpecArgs == Init /\ [][NextArgs]_vars

\* ------------------------------------------------------- the host process
\* index.js and the webhook of whatsapp-bot.js.  In the host every request
\* comes from the webhook and every shutdown from a signal; both handlers,
\* like the timer callbacks, run only when no promise job is pending, and
\* nothing runs once the process has exited.
SigintGrace == 5000
SigtermGrace == 3000
\* Number of signals the process is sent.
MaxSignals == 2

Signals == {"SIGINT", "SIGTERM"}
Grace(sig) == IF sig = "SIGINT" THEN SigintGrace ELSE SigtermGrace

\* Mutant: the response is sent only for a message that got a slot.
HandleIncoming_AckIfAdmitted(r) ==
  /\ ~exited
  /\ ~MicrotaskPending
  /\ phase[r] = "fresh"
  /\ \A s \in Req : s < r => phase[s] # "fresh"
  /\ arg' = [arg EXCEPT ![r] = Null]
  /\ Enter(r, Null)
  /\ acked' = [acked EXCEPT ![r] = (phase'[r] = "running")]
  /\ catcher' = [catcher EXCEPT ![r] = TRUE]
  /\ UNCHANGED <<isShuttingDown, jobs, maxConcurrent, maxRequestTime,
                 decs, wakes, rejects, graceTimers, exited>>
  /\ stats' = NoStats

\* handleIncoming(req, res) for the message r: the empty response is sent,
\* then processWithTimeout is called with no timeoutMs and a .catch handler
\* is attached to the promise it returns.
HandleIncoming(r) ==
  /\ ~exited
  /\ ~MicrotaskPending
  /\ phase[r] = "fresh"
  /\ \A s \in Req : s < r => phase[s] # "fresh"
  /\ acked' = [acked EXCEPT ![r] = TRUE]
  /\ arg' = [arg EXCEPT ![r] = Null]
  /\ Enter(r, Null)
  /\ catcher' = [catcher EXCEPT ![r] = TRUE]
  /\ UNCHANGED <<isShuttingDown, jobs, maxConcurrent, maxRequestTime,
                 decs, wakes, rejects, graceTimers, exited>>
  /\ stats' = NoStats

\* Mutant: the handler arms the exit timer without calling initiateShutdown.
Signal_NoShutdown(sig) ==
  /\ ~exited
  /\ ~MicrotaskPending
  /\ Len(graceTimers) < MaxSignals
  /\ graceTimers' = Append(graceTimers, Grace(sig))
  /\ UNCHANGED <<gate, calls, hist, exited, acked, catcher>>
  /\ stats' = NoStats

\* The handler of process.on(sig): safetyManager.initiateShutdown(), then
\* the exit timer is armed.
Signal(sig) ==
  /\ ~exited
  /\ ~MicrotaskPending
  /\ Len(graceTimers) < MaxSignals
  /\ isShuttingDown' = TRUE
  /\ queue' = Drained.queue
  /\ phase' = Drained.phase
  /\ outcome' = Drained.outcome
  /\ rejects' = Drained.rejects
  /\ graceTimers' = Append(graceTimers, Grace(sig))
  /\ UNCHANGED <<activeRequests, maxConcurrent, maxRequestTime, arg, timer,
                 jobs, incs, decs, wakes, enqs, exited, acked, catcher>>
  /\ stats' = NoStats

\* The callback of an exit timer: process.exit(0).
GraceElapsed ==
  /\ ~exited
  /\ ~MicrotaskPending
  /\ graceTimers # <<>>
  /\ exited' = TRUE
  /\ UNCHANGED <<gate, calls, hist, graceTimers, acked, catcher>>
  /\ stats' = NoStats

NextHost ==
  \/ \E r \in Req : HandleIncoming(r)
  \/ \E r \in Req : ~exited /\ Reenter(r)
  \/ \E r \in Req : ~exited /\ TimerFire(r)
  \/ \E r \in Req, ok \in BOOLEAN : ~exited /\ Complete(r, ok)
  \/ \E sig \in Signals : Signal(sig)
  \/ GraceElapsed

SpecHost == Init /\ [][NextHost]_vars

\* ------------------------------------------------------------- the claims
Admitted(r) == phase[r] \in {"running", "abandoned"}
TimerFires(r) == phase[r] = "running" /\ phase'[r] = "abandoned"
LateCompletion(r) == phase[r] = "abandoned" /\ phase'[r] = "finished"
ShutdownBegins == ~isShuttingDown /\ isShuttingDown'
Queued == {queue[i].reject.of : i \in 1..Len(queue)}

\* C1: in every reachable state 0 <= activeRequests <= maxConcurrent.
CapacityInvariant ==
  0 <= activeRequests /\ activeRequests <= maxConcurrent

\* C2: every admitted request increments activeRequests exactly once and
\* decrements it exactly once, whichever of completion and timer comes
\* first and whether or not the other comes later.
ExactlyOnceRelease ==
  \A r \in Req :
    /\ incs[r] <= 1
    /\ decs[r] <= incs[r]
    /\ phase[r] \in {"abandoned", "finished"} => decs[r] = 1

\* C3: a completion that comes after the request's timer has fired leaves
\* activeRequests and the wait queue unchanged.
LateCompletionDiscarded ==
  [][\A r \in Req :
       LateCompletion(r) =>
         activeRequests' = activeRequests /\ queue' = queue]_vars

\* C4: when the timer of an admitted request fires first, the caller gets
\* Timeout, activeRequests is decremented and the head of a non-empty wait
\* queue is dequeued and promoted in that same step.
TimeoutReleasesAndPromotes ==
  [][\A r \in Req :
       TimerFires(r) =>
         /\ outcome'[r] = "Timeout"
         /\ activeRequests' = activeRequests - 1
         /\ Len(queue) > 0 =>
              /\ queue' = Tail(queue)
              /\ phase'[Head(queue).resolve.of] = "woken"]_vars

\* C5: of two requests that were both placed in the wait queue, the one
\* enqueued earlier is admitted before the one enqueued later.  Requests are
\* numbered in submission order, and a request is first enqueued by its
\* submission.
FifoPromotion ==
  \A a, b \in Req :
    (a < b /\ enqs[a] > 0 /\ enqs[b] > 0 /\ incs[b] > 0) => incs[a] > 0

\* C6: initiateShutdown rejects every request that is in the wait queue with
\* GateClosed, and such a request is never admitted afterwards.
ShutdownRejectsQueued ==
  [][/\ ShutdownBegins =>
          \A r \in Queued : phase'[r] = "closed" /\ outcome'[r] = "GateClosed"
     /\ \A r \in Req :
          phase[r] = "closed" =>
            /\ phase'[r] = "closed"
            /\ outcome'[r] = "GateClosed"
            /\ incs'[r] = 0]_vars

WitnessShutdownRejectsQueued ==
  /\ \E a, b \in Req : a # b /\ rejects[a] = 1 /\ rejects[b] = 1
                        /\ outcome[a] = "GateClosed" /\ outcome[b] = "GateClosed"
  /\ \E s \in Req : phase[s] = "finished"
  /\ activeRequests = 0

\* C7: initiateShutdown leaves activeRequests unchanged and settles no
\* admitted request; a request that was admitted never ends with GateClosed.
ShutdownSparesInFlight ==
  [][/\ ShutdownBegins =>
          /\ activeRequests' = activeRequests
          /\ \A r \in Req :
               Admitted(r) =>
                 /\ phase'[r] = phase[r]
                 /\ outcome'[r] = outcome[r]
                 /\ timer'[r] = timer[r]
     /\ \A r \in Req : incs[r] > 0 => outcome'[r] # "GateClosed"]_vars

WitnessShutdownSparesInFlight ==
  /\ isShuttingDown
  /\ \E a, b, c \in Req :
       /\ rejects[a] = 1
       /\ phase[b] = "finished" /\ outcome[b] = "value"
       /\ phase[c] = "abandoned" /\ outcome[c] = "Timeout"

\* C8: a processWithTimeout call made while isShuttingDown is true fails
\* with GateClosed, leaves activeRequests and the wait queue unchanged and
\* never starts the operation.
SubmitAfterShutdownRejected ==
  [][\A r \in Req :
       (isShuttingDown /\ phase[r] = "fresh" /\ phase'[r] # "fresh") =>
         /\ phase'[r] = "closed"
         /\ outcome'[r] = "GateClosed"
         /\ activeRequests' = activeRequests
         /\ queue' = queue
         /\ timer'[r] = NoTimer
         /\ incs'[r] = 0]_vars

WitnessSubmitAfterShutdown ==
  /\ isShuttingDown
  /\ activeRequests > 0
  /\ \E r \in Req : phase[r] = "closed" /\ enqs[r] = 0 /\ outcome[r] = "GateClosed"

\* C9: once isShuttingDown is true it stays true and activeRequests is never
\* incremented again, also not for a waiter that was dequeued for promotion
\* before the shutdown and re-enters after it.
NoAdmissionAfterShutdown ==
  [][isShuttingDown =>
       /\ isShuttingDown'
       /\ incs' = incs
       /\ activeRequests' <= activeRequests]_vars

WitnessWokenWaiterRefused ==
  /\ isShuttingDown
  /\ \E r \in Req :
       /\ wakes[r] > 0
       /\ rejects[r] = 0
       /\ phase[r] = "closed"
       /\ incs[r] = 0

\* C10: a second initiateShutdown, at any later point, changes nothing: in
\* every state in which the gate is shutting down, the call leaves the
\* queue, every request and every outcome as they are, and no request is
\* rejected by shutdown twice.
IdempotentShutdown ==
  /\ isShuttingDown =>
       /\ Drained.queue = queue
       /\ Drained.phase = phase
       /\ Drained.outcome = outcome
       /\ Drained.rejects = rejects
  /\ \A r \in Req : rejects[r] <= 1

WitnessSecondShutdown ==
  /\ isShuttingDown
  /\ \E r \in Req : rejects[r] = 1
  /\ \E s \in Req : phase[s] = "closed" /\ rejects[s] = 0 /\ enqs[s] = 0
  /\ ENABLED InitiateShutdown

\* C11: a request delivers at most one outcome to its caller: once its
\* outcome is set, no later step changes it, and the request is never
\* queued, woken or admitted again.
SingleTerminalOutcome ==
  [][\A r \in Req :
       outcome[r] # "none" =>
         /\ outcome'[r] = outcome[r]
         /\ phase'[r] \in {"abandoned", "finished", "closed"}
         /\ incs'[r] = incs[r]
         /\ enqs'[r] = enqs[r]]_vars

WitnessLateEventsAfterOutcome ==
  \E a, b \in Req :
    /\ outcome[a] = "Timeout" /\ phase[a] = "finished"
    /\ outcome[b] = "GateClosed" /\ rejects[b] = 1

\* C12: an admitted request whose operation never resolves does not stay
\* running: its timer fires, so that from some point on no request is
\* running, and the step in which a timer fires gives the caller the
\* timeout error and leaves activeRequests one less than before.
TimeoutIndependentOfOperation ==
  /\ <>[](\A r \in Req : phase[r] # "running")
  /\ [][\A r \in Req :
          TimerFires(r) =>
            /\ outcome'[r] = "Timeout"
            /\ timer'[r] = NoTimer
            /\ activeRequests' = activeRequests - 1]_vars

WitnessTimedOutSlotReclaimed ==
  /\ activeRequests = 0
  /\ \E r \in Req :
       /\ phase[r] = "abandoned"
       /\ outcome[r] = "Timeout"
       /\ incs[r] = 1 /\ decs[r] = 1

\* The number of entries of request r in the wait queue.
InQueue(r) == Cardinality({i \in 1..Len(queue) : queue[i].resolve.of = r})

\* C13: every entry pushed on the wait queue leaves it at most once, and
\* only by promotion (shift and resolve) or by shutdown (shift and reject):
\* each push of a request is either still in the queue, or was promoted, or
\* was rejected, and a request is in the queue at most once.
WaiterReleasedOnce ==
  \A r \in Req :
    /\ InQueue(r) <= 1
    /\ enqs[r] = wakes[r] + rejects[r] + InQueue(r)

WitnessPromotedThenRejected ==
  /\ \E a \in Req : enqs[a] = 2 /\ wakes[a] = 1 /\ rejects[a] = 1
  /\ \E b \in Req : enqs[b] = 1 /\ wakes[b] = 1 /\ phase[b] = "running"

\* C14: a request that waits (queued, or woken and not yet re-entered) has no
\* timer and no outcome; it leaves the wait only by admission or by the
\* GateClosed rejection, never with Timeout.
TimeoutFromAdmission ==
  [][\A r \in Req :
       /\ phase[r] \in {"queued", "woken"} =>
            /\ timer[r] = NoTimer
            /\ outcome[r] = "none"
            /\ phase'[r] \in {"queued", "woken", "running", "closed"}
            /\ outcome'[r] \in {"none", "GateClosed"}
       /\ phase'[r] \in {"queued", "woken"} => timer'[r] = NoTimer]_vars

WitnessWaitsWhileOthersTimeOut ==
  /\ \E a, b \in Req : phase[a] = "queued" /\ outcome[b] = "Timeout"
  /\ \E c \in Req : enqs[c] > 0 /\ outcome[c] = "Timeout"

\* C15: when the operation of a running request fails, the caller gets the
\* error, the timer is cancelled, activeRequests is decremented once, the
\* head of a non-empty wait queue is promoted, and the request is not
\* admitted again.
FailurePropagatedAndReleases ==
  [][\A r \in Req :
       (phase[r] = "running" /\ outcome'[r] = "error") =>
         /\ phase'[r] = "finished"
         /\ timer'[r] = NoTimer
         /\ activeRequests' = activeRequests - 1
         /\ decs'[r] = decs[r] + 1
         /\ incs' = incs
         /\ Len(queue) > 0 =>
              /\ queue' = Tail(queue)
              /\ phase'[Head(queue).resolve.of] = "woken"]_vars

WitnessFailureReleases ==
  \E a, b \in Req :
    /\ outcome[a] = "error" /\ phase[a] = "finished"
    /\ incs[a] = 1 /\ decs[a] = 1
    /\ wakes[b] = 1 /\ phase[b] = "running"

\* C16: once the operation of a running request has completed, the request
\* has no timer: it keeps its outcome, and no further decrement is made
\* for it.
CompletionCancelsTimer ==
  [][\A r \in Req :
       /\ (phase[r] = "running" /\ phase'[r] = "finished") =>
            timer'[r] = NoTimer
       /\ (phase[r] = "finished" /\ outcome[r] \in {"value", "error"}) =>
            /\ timer[r] = NoTimer
            /\ phase'[r] = "finished"
            /\ outcome'[r] = outcome[r]
            /\ decs'[r] = decs[r]]_vars

WitnessCompletedBeforeTimer ==
  /\ \E r \in Req : phase[r] = "finished" /\ outcome[r] = "value" /\ decs[r] = 1
  /\ \E s \in Req : phase[s] = "abandoned"

\* C17: getStats returns the gate's current counter, queue length, shutdown
\* flag and capacity and changes nothing, in whatever state it is called.
GetStatsPureRead ==
  [][stats'.returned =>
       /\ stats'.activeRequests = activeRequests
       /\ stats'.queueSize = Len(queue)
       /\ stats'.isShuttingDown = isShuttingDown
       /\ stats'.maxConcurrent = maxConcurrent
       /\ UNCHANGED <<gate, calls, hist>>]_vars

WitnessStatsUnderLoad ==
  /\ stats.returned
  /\ stats.activeRequests = -1
  /\ stats.queueSize = 2
  /\ stats.isShuttingDown = FALSE
  /\ jobs # <<>>

\* C18: a submission made while the gate is not shutting down is admitted
\* in that step when activeRequests < maxConcurrent (counter plus one, queue
\* unchanged); otherwise one entry for it is appended at the tail of the
\* wait queue and the counter is unchanged.
AdmissionDecision ==
  [][\A r \in Req :
       (~isShuttingDown /\ phase[r] = "fresh" /\ phase'[r] # "fresh") =>
         IF activeRequests < maxConcurrent
           THEN /\ phase'[r] = "running"
                /\ activeRequests' = activeRequests + 1
                /\ queue' = queue
           ELSE /\ phase'[r] = "queued"
                /\ queue' = Append(queue, Entry(r))
                /\ activeRequests' = activeRequests]_vars

WitnessAdmittedAndQueued ==
  /\ ~isShuttingDown
  /\ activeRequests = maxConcurrent
  /\ Len(queue) >= 2
  /\ \E r \in Req : phase[r] = "running" /\ enqs[r] = 0

RECURSIVE SumUpTo(_, _)
SumUpTo(f, n) == IF n = 0 THEN 0 ELSE f[n] + SumUpTo(f, n - 1)
\* The sum of a per-request counter.
Total(f) == SumUpTo(f, NumReq)

\* C19: a step that decrements activeRequests takes at most one waiter off
\* the queue, and the promotions made so far never outnumber the
\* decrements made so far.
OnePromotionPerFreedSlot ==
  [][/\ activeRequests' < activeRequests => Len(queue') >= Len(queue) - 1
     /\ Total(wakes') <= Total(decs')]_vars

WitnessEveryReleasePromoted ==
  /\ Total(wakes) >= 2
  /\ Total(wakes) = Total(decs)
  /\ Len(queue) > 0

\* C20: in every reachable state activeRequests is the number of requests
\* that were admitted and have no outcome yet, and that number is at most
\* maxConcurrent.
InFlightCountsRunning ==
  LET running == {r \in Req : phase[r] = "running"}
  IN  /\ activeRequests = Cardinality(running)
      /\ Cardinality(running) <= maxConcurrent

\* C21: in every reachable state in which no promotion is in progress (no
\* woken waiter has its re-entry pending), a non-empty wait queue implies
\* activeRequests >= maxConcurrent, so that no submission finds a free slot
\* while requests wait.
NoFreeSlotWhileWaiting ==
  (jobs = <<>> /\ queue # <<>>) => activeRequests >= maxConcurrent

\* C22: with the timers and the promise jobs scheduled fairly, every request
\* that is in the wait queue eventually leaves it for good: it is admitted
\* or it is rejected with GateClosed.
NoStrandedWaiter ==
  \A r \in Req :
    (phase[r] = "queued") ~> (incs[r] > 0 \/ outcome[r] = "GateClosed")

\* C23: a waiter dequeued for promotion takes the freed slot at its re-entry
\* unless the gate is shutting down by then, in which case it is refused;
\* it is never put back into the wait queue.  While its re-entry is pending
\* no new submission is admitted.
PromotionAtomic ==
  [][/\ \A r \in Req :
          (phase[r] = "woken" /\ phase'[r] # "woken") =>
            phase'[r] = IF isShuttingDown THEN "closed" ELSE "running"
     /\ jobs # <<>> =>
          \A r \in Req : phase[r] = "fresh" => phase'[r] # "running"]_vars

\* C24: once the gate is shutting down, with every request that was in
\* flight completing or timing out, activeRequests eventually is 0 and
\* stays 0 for ever.
DrainReachesZero ==
  isShuttingDown ~> [](activeRequests = 0)

\* C25: in every reachable state in which the gate is shutting down the wait
\* queue is empty, whatever was submitted, re-entered, completed or timed
\* out since the shutdown.
QueueEmptyAfterShutdown ==
  isShuttingDown => queue = <<>>

WitnessStepsAfterShutdown ==
  /\ isShuttingDown
  /\ queue = <<>>
  /\ \E a, b, c, d \in Req :
       /\ rejects[a] = 1
       /\ phase[b] = "closed" /\ enqs[b] = 0
       /\ phase[c] = "closed" /\ wakes[c] = 1 /\ rejects[c] = 0
       /\ phase[d] = "finished" /\ decs[d] = 2

\* C26: whatever MAX_CONCURRENT_REQUESTS and MAX_REQUEST_TIME hold, the
\* constructed gate has maxConcurrent >= 1 and maxRequestTime > 0.
ConfigurationBounds ==
  maxConcurrent >= 1 /\ maxRequestTime > 0

\* C27: the timer of a request is armed, at its admission, with the
\* timeoutMs its caller supplied, whatever that value is, and with
\* maxRequestTime when the caller supplied none.
TimeoutSelection ==
  [][\A r \in Req :
       (phase[r] # "running" /\ phase'[r] = "running") =>
         timer'[r] = IF arg'[r] = Null THEN Num(maxRequestTime) ELSE arg'[r]]_vars

SignalHandled == Len(graceTimers') > Len(graceTimers)
ProcessExits == ~exited /\ exited'

\* C28: the handler of a signal calls initiateShutdown (the waiters are
\* rejected, activeRequests is left alone) and arms the exit timer without
\* exiting; the process exits only by an exit timer, after a shutdown, and
\* that timer can fire whatever activeRequests is; a second signal is
\* handled like the first and changes no request, so that no waiter is
\* rejected twice.
HostShutdownOrdering ==
  /\ [][/\ SignalHandled =>
             /\ isShuttingDown'
             /\ queue' = <<>>
             /\ \A r \in Queued : outcome'[r] = "GateClosed"
             /\ activeRequests' = activeRequests
             /\ exited' = exited
             /\ isShuttingDown => UNCHANGED <<queue, phase, outcome, rejects>>
        /\ ProcessExits =>
             /\ isShuttingDown
             /\ graceTimers # <<>>
             /\ UNCHANGED <<gate, calls>>
        /\ \A r \in Req : rejects'[r] <= 1]_vars
  /\ [](exited => isShuttingDown /\ queue = <<>>)
  /\ []((~exited /\ graceTimers # <<>> /\ ~MicrotaskPending) =>
          ENABLED GraceElapsed)
  /\ []((~exited /\ Len(graceTimers) < MaxSignals /\ ~MicrotaskPending) =>
          \A sig \in Signals : ENABLED Signal(sig))

WitnessExitWithRequestsInFlight ==
  /\ exited
  /\ graceTimers = <<SigintGrace, SigtermGrace>>
  /\ activeRequests > 0
  /\ \E a, b \in Req : phase[a] = "running" /\ rejects[b] = 1

\* C29: every message the webhook handled has its response sent, whether
\* the gate admitted, queued or refused it and whether or not it has an
\* outcome yet, and every request that ended with GateClosed, Timeout or
\* the operation's error has a .catch handler on its promise.
WebhookIndependentOfGate ==
  \A r \in Req :
    /\ phase[r] # "fresh" => acked[r]
    /\ outcome[r] \in {"GateClosed", "Timeout", "error"} => catcher[r]

WitnessAckedInEveryGateState ==
  \E a, b, c, d \in Req :
    /\ acked[a] /\ phase[a] = "queued" /\ outcome[a] = "none"
    /\ acked[b] /\ outcome[b] = "Timeout" /\ catcher[b]
    /\ acked[c] /\ outcome[c] = "error" /\ catcher[c]
    /\ acked[d] /\ phase[d] = "running" /\ outcome[d] = "none"

====
